---- MODULE Spec2Model ----
(***************************************************************************)
(* Model of src/src/voice_clone.py: the voice-cloning orchestration        *)
(* (clone_voice, clone_voice_batch, main) around the external F5TTS        *)
(* service.  The service is modelled by what the orchestration can         *)
(* observe of it: a constructor call (a model load) and infer calls that   *)
(* either write the requested file or raise.  The pass-through tuning      *)
(* knobs (speed, nfe_step, cfg_strength, ref_text) are handed to infer     *)
(* unchanged and never read by the orchestration; they are left out.       *)
(***************************************************************************)
EXTENDS Integers, Sequences, FiniteSets, TLC

VARIABLES
    pc,         \* control position of the process
    args,       \* the parsed command line (argparse namespace)
    frame,      \* parameters and locals of the running clone_voice[_batch] call
    existing,   \* names of the reference-audio files that exist
    textFile,   \* the text source on disk: [exists, content]
    cwd,        \* the process's current working directory
    startCwd,   \* the working directory at the start of the current call
    dirs,       \* directories created by os.makedirs
    written,    \* output files written by the synthesis service
    loadLog,    \* F5TTS(model=...) constructor calls, in order
    inferLog,   \* tts.infer(...) calls, in order
    dispatched, \* the operations main has called, in order
    ret,        \* value returned by the last finished call
    exc,        \* exception raised by the last call ("" when none)
    exit,       \* process exit status (-1 while running)
    ncalls      \* number of library calls started

vars == <<pc, args, frame, existing, textFile, cwd, startCwd, dirs, written,
          loadLog, inferLog, dispatched, ret, exc, exit, ncalls>>

----------------------------------------------------------------------------
(* Bounds of the model *)

\* longest text source, in characters
MaxContent == 5
\* successive library calls in one process
MaxLibCalls == 2
\* longest text source of a library batch call, in characters
MaxLibContent == 1

----------------------------------------------------------------------------
(* Values *)

NL == "\n"
Chars == {" ", "a", NL}

RECURSIVE SeqsUpTo(_, _)
SeqsUpTo(S, n) ==
    IF n = 0 THEN {<<>>}
    ELSE LET shorter == SeqsUpTo(S, n - 1)
         IN shorter \cup {Append(s, c) : s \in {t \in shorter : Len(t) = n - 1}, c \in S}

Contents(n) == SeqsUpTo(Chars, n)

Rel(parts) == [abs |-> FALSE, parts |-> parts]
Abs(parts) == [abs |-> TRUE, parts |-> parts]

\* --output default "output.wav" (line 131) and other sample values
DefaultOutput == Rel(<<"output.wav">>)
OutputPaths == {DefaultOutput, Rel(<<"..", "o.wav">>),
                Abs(<<"srv", "o.wav">>), Abs(<<"srv", "..", "o.wav">>)}
\* --output_dir default "outputs" (line 132) and other sample values
DefaultOutputDir == Rel(<<"outputs">>)
OutputDirs == {DefaultOutputDir, Rel(<<"..", "out">>),
               Abs(<<"srv", "out">>), Abs(<<"srv", ".", "out">>)}
Cwds == {<<"home">>, <<"tmp", "w">>}

\* two of the --model choices (line 134)
ModelNames == {"F5TTS_v1_Base", "F5TTS_Base"}
RefAudios == {"speaker.wav", "missing.wav"}

None == [given |-> FALSE, val |-> <<>>]
Some(v) == [given |-> TRUE, val |-> v]
NoneFile == [given |-> FALSE, val |-> ""]
TextArgs == {None, Some(<<>>), Some(<<"a">>), Some(<<" ">>)}
TextFileArgs == {NoneFile, Some(""), Some("script.txt")}

\* Python truthiness of an optional string argument: None and "" are falsy
Truthy(a) == a.given /\ Len(a.val) > 0

NoPath == Rel(<<>>)
NoResult == [kind |-> "none", path |-> NoPath, list |-> <<>>]
NoFrame == [fn |-> "", ref_audio |-> "", gen_text |-> <<>>, output_path |-> NoPath,
            text_file |-> "", output_dir |-> NoPath, model |-> "",
            lines |-> <<>>, i |-> 0, outputs |-> <<>>, tts |-> 0]

----------------------------------------------------------------------------
(* Pure functions of the program *)

\* os.path.normpath on the components of a POSIX path
RECURSIVE NormParts(_, _, _)
NormParts(parts, isAbs, acc) ==
    IF parts = <<>> THEN acc
    ELSE LET c == Head(parts)
             r == Tail(parts)
         IN IF c = "." \/ c = "" THEN NormParts(r, isAbs, acc)
            ELSE IF c = ".."
                 THEN IF acc # <<>> /\ acc[Len(acc)] # ".."
                      THEN NormParts(r, isAbs, SubSeq(acc, 1, Len(acc) - 1))
                      ELSE IF isAbs THEN NormParts(r, isAbs, acc)
                           ELSE NormParts(r, isAbs, Append(acc, c))
                 ELSE NormParts(r, isAbs, Append(acc, c))

\* os.path.join(a, b)
Join(a, b) == IF b.abs THEN b ELSE [abs |-> a.abs, parts |-> a.parts \o b.parts]

AbsPath_noResolve(c, p) == p

\* os.path.abspath(p) with working directory c: normpath(join(getcwd(), p))
AbsPath(c, p) ==
    LET j == Join(Abs(c), p)
    IN [abs |-> j.abs, parts |-> NormParts(j.parts, j.abs, <<>>)]

\* str.splitlines()
RECURSIVE SplitFrom(_, _)
SplitFrom(s, cur) ==
    IF s = <<>> THEN (IF cur = <<>> THEN <<>> ELSE <<cur>>)
    ELSE IF Head(s) = NL THEN <<cur>> \o SplitFrom(Tail(s), <<>>)
         ELSE SplitFrom(Tail(s), Append(cur, Head(s)))

SplitLines(s) == SplitFrom(s, <<>>)

IsSpace(c) == c \in {" ", NL}

RECURSIVE LStrip(_)
LStrip(s) == IF s # <<>> /\ IsSpace(Head(s)) THEN LStrip(Tail(s)) ELSE s

RECURSIVE RStrip(_)
RStrip(s) ==
    IF s # <<>> /\ IsSpace(s[Len(s)]) THEN RStrip(SubSeq(s, 1, Len(s) - 1)) ELSE s

\* str.strip()
Strip(s) == RStrip(LStrip(s))

RECURSIVE StripAll(_)
StripAll(ls) == IF ls = <<>> THEN <<>> ELSE <<Strip(Head(ls))>> \o StripAll(Tail(ls))

RECURSIVE StripKeep(_)
StripKeep(ls) ==
    IF ls = <<>> THEN <<>>
    ELSE IF Strip(Head(ls)) # <<>> THEN <<Strip(Head(ls))>> \o StripKeep(Tail(ls))
         ELSE StripKeep(Tail(ls))

BatchLines_noFilter(content) == StripAll(SplitLines(content))

\* [line.strip() for line in text.splitlines() if line.strip()]
BatchLines(content) == StripKeep(SplitLines(content))

\* format(i, "03d"): zero-padded to a minimum width of three digits
Format03d(i) ==
    IF i < 10 THEN "00" \o ToString(i)
    ELSE IF i < 100 THEN "0" \o ToString(i)
         ELSE ToString(i)

ClipName_fromZero(i) == "clip_" \o Format03d(i - 1) \o ".wav"

\* f"clip_{i:03d}.wav"
ClipName(i) == "clip_" \o Format03d(i) \o ".wav"

\* os.path.exists(ref_audio)
RefAudioExists(ref, files) == ref \in files

\* the argument check of main: neither text nor text file
ArgsRejected(a) == ~Truthy(a.text) /\ ~Truthy(a.text_file)

DispatchTarget_textFirst(a) ==
    IF Truthy(a.text) THEN "clone_voice" ELSE "clone_voice_batch"

\* the dispatch of main: batch when a text file is given, else single
DispatchTarget(a) ==
    IF Truthy(a.text_file) THEN "clone_voice_batch" ELSE "clone_voice"

\* outcomes of one tts.infer call: the service cannot read a missing reference
InferOutcomes(ref, files) == IF ref \in files THEN {TRUE, FALSE} ELSE {FALSE}

LoadLogInLoop_reload(log, f) == Append(log, [model |-> f.model, by |-> f.fn])

\* the loop body constructs no model: the handle made before the loop is reused
LoadLogInLoop(log, f) == log

OnInferFailure_skip == "skip"

\* an exception of tts.infer inside the loop is not caught (no try/except)
OnInferFailure == "raise"

LoadEntry(f) == [model |-> f.model, by |-> f.fn]

\* one tts.infer call as the service sees it; cwd is the working directory then
InferEntry(f, text, path, ok, c) ==
    [ref_file |-> f.ref_audio, gen_text |-> text, file_wave |-> path,
     handle |-> f.tts, by |-> f.fn, ok |-> ok, cwd |-> c]

PathResult(p) == [kind |-> "path", path |-> p, list |-> <<>>]
ListResult(l) == [kind |-> "list", path |-> NoPath, list |-> l]

----------------------------------------------------------------------------
(* Initial states *)

InitCommon ==
    /\ frame = NoFrame
    /\ existing = {"speaker.wav"}
    /\ cwd \in Cwds
    /\ startCwd = cwd
    /\ dirs = {}
    /\ written = {}
    /\ loadLog = <<>>
    /\ inferLog = <<>>
    /\ dispatched = <<>>
    /\ ret = NoResult
    /\ exc = ""
    /\ exit = -1
    /\ ncalls = 0

\* a process started from the command line: parse_args has filled args
Init ==
    /\ pc = "main"
    /\ args \in [ref_audio : RefAudios, text : TextArgs, text_file : TextFileArgs,
                 output : OutputPaths, output_dir : OutputDirs, model : ModelNames]
    \* the option the dispatch does not read keeps its default
    /\ IF Truthy(args.text_file) THEN args.output = DefaultOutput
                                 ELSE args.output_dir = DefaultOutputDir
    /\ textFile \in [exists : BOOLEAN, content : Contents(MaxContent)]
    /\ textFile.exists = FALSE => textFile.content = <<>>
    /\ Truthy(args.text_file) = FALSE => textFile = [exists |-> TRUE, content |-> <<>>]
    /\ InitCommon

\* a process that imports the module and calls its operations
InitLib ==
    /\ pc = "idle"
    /\ args = [ref_audio |-> "", text |-> None, text_file |-> NoneFile,
               output |-> DefaultOutput, output_dir |-> DefaultOutputDir, model |-> ""]
    /\ textFile \in [exists : {TRUE}, content : Contents(MaxLibContent)]
    /\ InitCommon

----------------------------------------------------------------------------
(* main *)

\* lines 142-145: parser.error prints the usage and exits with status 2
MainValidate ==
    /\ pc = "main"
    /\ IF ArgsRejected(args)
       THEN pc' = "exited" /\ exit' = 2
       ELSE pc' = "dispatch" /\ exit' = exit
    /\ UNCHANGED <<args, frame, existing, textFile, cwd, startCwd, dirs, written,
                   loadLog, inferLog, dispatched, ret, exc, ncalls>>

\* lines 147-168: the call of clone_voice_batch or of clone_voice
MainDispatch ==
    /\ pc = "dispatch"
    /\ LET target == DispatchTarget(args)
       IN /\ dispatched' = Append(dispatched, target)
          /\ IF target = "clone_voice_batch"
             THEN /\ frame' = [NoFrame EXCEPT !.fn = target,
                                              !.ref_audio = args.ref_audio,
                                              !.text_file = args.text_file.val,
                                              !.output_dir = args.output_dir,
                                              !.model = args.model]
                  /\ pc' = "cvb_entry"
             ELSE /\ frame' = [NoFrame EXCEPT !.fn = target,
                                              !.ref_audio = args.ref_audio,
                                              !.gen_text = args.text.val,
                                              !.output_path = args.output,
                                              !.model = args.model]
                  /\ pc' = "cv_entry"
    /\ startCwd' = cwd
    /\ ncalls' = ncalls + 1
    /\ UNCHANGED <<args, existing, textFile, cwd, dirs, written, loadLog, inferLog,
                   ret, exc, exit>>

\* the end of main: status 0 on return, 1 on an uncaught exception
MainExit ==
    /\ pc \in {"ret", "raised"}
    /\ exit' = IF pc = "ret" THEN 0 ELSE 1
    /\ pc' = "exited"
    /\ UNCHANGED <<args, frame, existing, textFile, cwd, startCwd, dirs, written,
                   loadLog, inferLog, dispatched, ret, exc, ncalls>>

----------------------------------------------------------------------------
(* clone_voice *)

\* lines 52-55: the reference check, then the output path made absolute
CvValidate ==
    /\ pc = "cv_entry"
    /\ IF ~RefAudioExists(frame.ref_audio, existing)
       THEN /\ exc' = "FileNotFoundError:ref_audio"
            /\ pc' = "raised"
            /\ frame' = frame
       ELSE /\ frame' = [frame EXCEPT !.output_path = AbsPath(cwd, frame.output_path)]
            /\ pc' = "cv_load"
            /\ exc' = exc
    /\ UNCHANGED <<args, existing, textFile, cwd, startCwd, dirs, written, loadLog,
                   inferLog, dispatched, ret, exit, ncalls>>

\* lines 57-58: tts = F5TTS(model=model)
CvLoad ==
    /\ pc = "cv_load"
    /\ loadLog' = Append(loadLog, LoadEntry(frame))
    /\ frame' = [frame EXCEPT !.tts = Len(loadLog) + 1]
    /\ pc' = "cv_infer"
    /\ UNCHANGED <<args, existing, textFile, cwd, startCwd, dirs, written, inferLog,
                   dispatched, ret, exc, exit, ncalls>>

\* lines 60-77: the one tts.infer call and the return of output_path
CvInfer ==
    /\ pc = "cv_infer"
    /\ \E ok \in InferOutcomes(frame.ref_audio, existing), c \in Cwds :
          /\ inferLog' = Append(inferLog,
                                InferEntry(frame, frame.gen_text, frame.output_path, ok, cwd))
          /\ cwd' = c
          /\ IF ok
             THEN /\ written' = written \cup {frame.output_path}
                  /\ ret' = PathResult(frame.output_path)
                  /\ pc' = "ret"
                  /\ exc' = exc
             ELSE /\ exc' = "SynthesisFailure"
                  /\ pc' = "raised"
                  /\ UNCHANGED <<written, ret>>
    /\ UNCHANGED <<args, frame, existing, textFile, startCwd, dirs, loadLog,
                   dispatched, exit, ncalls>>

----------------------------------------------------------------------------
(* clone_voice_batch *)

\* lines 91-97: read and split the text source; return [] when nothing is left,
\* else make the output directory absolute and create it
CvbRead ==
    /\ pc = "cvb_entry"
    /\ IF ~textFile.exists
       THEN /\ exc' = "FileNotFoundError:text_file"
            /\ pc' = "raised"
            /\ UNCHANGED <<frame, ret, dirs>>
       ELSE LET lines == BatchLines(textFile.content)
            IN IF lines = <<>>
               THEN /\ ret' = ListResult(<<>>)
                    /\ pc' = "ret"
                    /\ frame' = [frame EXCEPT !.lines = lines]
                    /\ UNCHANGED <<exc, dirs>>
               ELSE LET d == AbsPath(cwd, frame.output_dir)
                    IN /\ frame' = [frame EXCEPT !.lines = lines, !.output_dir = d]
                       /\ dirs' = dirs \cup {d}
                       /\ pc' = "cvb_load"
                       /\ UNCHANGED <<exc, ret>>
    /\ UNCHANGED <<args, existing, textFile, cwd, startCwd, written, loadLog,
                   inferLog, dispatched, exit, ncalls>>

\* lines 99-104: tts = F5TTS(model=model); outputs = []; the index starts at 1
CvbLoad ==
    /\ pc = "cvb_load"
    /\ loadLog' = Append(loadLog, LoadEntry(frame))
    /\ frame' = [frame EXCEPT !.tts = Len(loadLog) + 1, !.outputs = <<>>, !.i = 1]
    /\ pc' = "cvb_loop"
    /\ UNCHANGED <<args, existing, textFile, cwd, startCwd, dirs, written, inferLog,
                   dispatched, ret, exc, exit, ncalls>>

\* lines 104-118: one iteration of the loop
CvbInfer ==
    /\ pc = "cvb_loop"
    /\ frame.i <= Len(frame.lines)
    /\ LET line == frame.lines[frame.i]
           out_path == Join(frame.output_dir, Rel(<<ClipName(frame.i)>>))
       IN \E ok \in InferOutcomes(frame.ref_audio, existing), c \in Cwds :
             /\ inferLog' = Append(inferLog, InferEntry(frame, line, out_path, ok, cwd))
             /\ loadLog' = LoadLogInLoop(loadLog, frame)
             /\ cwd' = c
             /\ IF ok
                THEN /\ written' = written \cup {out_path}
                     /\ frame' = [frame EXCEPT !.outputs = Append(@, out_path),
                                               !.i = @ + 1]
                     /\ UNCHANGED <<pc, exc>>
                ELSE IF OnInferFailure = "raise"
                     THEN /\ exc' = "SynthesisFailure"
                          /\ pc' = "raised"
                          /\ UNCHANGED <<written, frame>>
                     ELSE /\ frame' = [frame EXCEPT !.i = @ + 1]
                          /\ UNCHANGED <<written, pc, exc>>
    /\ UNCHANGED <<args, existing, textFile, startCwd, dirs, dispatched, ret, exit,
                   ncalls>>

\* lines 120-121: return outputs
CvbReturn ==
    /\ pc = "cvb_loop"
    /\ frame.i > Len(frame.lines)
    /\ ret' = ListResult(frame.outputs)
    /\ pc' = "ret"
    /\ UNCHANGED <<args, frame, existing, textFile, cwd, startCwd, dirs, written,
                   loadLog, inferLog, dispatched, exc, exit, ncalls>>

----------------------------------------------------------------------------
(* Calls from an importing program *)

\* a call clone_voice(ref_audio, gen_text, output_path, model)
LibCallSingle ==
    /\ pc \in {"idle", "ret", "raised"}
    /\ ncalls < MaxLibCalls
    /\ \E r \in RefAudios, t \in {<<>>, <<"a">>}, o \in OutputPaths, m \in ModelNames :
          frame' = [NoFrame EXCEPT !.fn = "clone_voice", !.ref_audio = r,
                                   !.gen_text = t, !.output_path = o, !.model = m]
    /\ pc' = "cv_entry"
    /\ ncalls' = ncalls + 1
    /\ startCwd' = cwd
    /\ ret' = NoResult
    /\ exc' = ""
    /\ UNCHANGED <<args, existing, textFile, cwd, dirs, written, loadLog, inferLog,
                   dispatched, exit>>

\* a call clone_voice_batch(ref_audio, text_file, output_dir, model)
LibCallBatch ==
    /\ pc \in {"idle", "ret", "raised"}
    /\ ncalls < MaxLibCalls
    /\ \E r \in RefAudios, o \in OutputDirs, m \in ModelNames :
          frame' = [NoFrame EXCEPT !.fn = "clone_voice_batch", !.ref_audio = r,
                                   !.text_file = "script.txt", !.output_dir = o,
                                   !.model = m]
    /\ pc' = "cvb_entry"
    /\ ncalls' = ncalls + 1
    /\ startCwd' = cwd
    /\ ret' = NoResult
    /\ exc' = ""
    /\ UNCHANGED <<args, existing, textFile, cwd, dirs, written, loadLog, inferLog,
                   dispatched, exit>>

----------------------------------------------------------------------------
(* Specifications *)

Steps ==
    \/ CvValidate
    \/ CvLoad
    \/ CvInfer
    \/ CvbRead
    \/ CvbLoad
    \/ CvbInfer
    \/ CvbReturn

Next ==
    \/ MainValidate
    \/ MainDispatch
    \/ MainExit
    \/ Steps

NextLib ==
    \/ LibCallSingle
    \/ LibCallBatch
    \/ Steps

Spec == Init /\ [][Next]_vars

SpecLib == InitLib /\ [][NextLib]_vars

----------------------------------------------------------------------------
(* Vocabulary of the properties *)

TextSupplied == args.text.given /\ args.text.val # <<>>
TextFileSupplied == args.text_file.given /\ args.text_file.val # ""
RefMissing == args.ref_audio \notin existing
RanBatch == dispatched = <<"clone_voice_batch">>

\* no character of the text is anything but blank space or a line break
AllBlank(content) == \A k \in DOMAIN content : content[k] \in {" ", NL}

\* a path component list in normal form
NoDots(parts) == \A k \in DOMAIN parts : parts[k] \notin {".", "..", ""}

\* the largest index a three-digit field holds
MaxClips == 999

\* the first clip names, written out
ExpectedClip == <<"clip_001.wav", "clip_002.wav", "clip_003.wav", "clip_004.wav">>

\* the output location the command line asked for
GivenOutput == IF RanBatch THEN args.output_dir ELSE args.output

\* what an infer call's file_wave is resolved from: the file itself in single
\* mode, its directory in batch mode
ResolvedPart(p) ==
    IF RanBatch THEN [abs |-> p.abs, parts |-> SubSeq(p.parts, 1, Len(p.parts) - 1)]
    ELSE p

----------------------------------------------------------------------------
(* C1 *)

\* C1: a run whose reference audio does not exist ends in the reference-not-found
\* error with a non-zero exit status, in single and in batch mode, and no model
\* has been loaded, no synthesis call made and no output file written.  The batch
\* runs looked at are those with a readable text source that has a non-blank
\* line, so that no other outcome (unreadable source, empty batch) is in play.
C1_ReferenceNotFoundBeforeLoad ==
    (/\ dispatched # <<>>
     /\ RefMissing
     /\ RanBatch => (textFile.exists /\ ~AllBlank(textFile.content))) =>
        /\ loadLog = <<>>
        /\ inferLog = <<>>
        /\ written = {}
        /\ pc # "ret"
        /\ pc \in {"raised", "exited"} => exc = "FileNotFoundError:ref_audio"
        /\ pc = "exited" => exit # 0

----------------------------------------------------------------------------
(* C2 *)

\* C2: an invocation that supplies neither or both of --text and --text_file
\* ends with a non-zero exit status, with no model load and no synthesis call.
C2_ExactlyOneAccepted ==
    (TextSupplied = TextFileSupplied) =>
        /\ loadLog = <<>>
        /\ inferLog = <<>>
        /\ pc = "exited" => exit # 0

----------------------------------------------------------------------------
(* C3 *)

\* C3: an invocation that passes the argument check dispatches to exactly one
\* operation: clone_voice_batch when a text file is given (a direct text given
\* or not), clone_voice otherwise; every load and synthesis call of the
\* invocation is made by that one operation.
C3_DispatchExactlyOnePath ==
    /\ Len(dispatched) <= 1
    /\ exit = 2 => dispatched = <<>>
    /\ (pc \notin {"main", "dispatch"} /\ exit # 2) => Len(dispatched) = 1
    /\ dispatched # <<>> =>
          /\ dispatched[1] = IF TextFileSupplied THEN "clone_voice_batch"
                             ELSE "clone_voice"
          /\ frame.fn = dispatched[1]
          /\ \A k \in DOMAIN loadLog : loadLog[k].by = dispatched[1]
          /\ \A k \in DOMAIN inferLog : inferLog[k].by = dispatched[1]

C3_Witness ==
    /\ TextSupplied
    /\ TextFileSupplied
    /\ RanBatch
    /\ pc = "exited"
    /\ exit = 0
    /\ inferLog # <<>>

----------------------------------------------------------------------------
(* C4 *)

\* C4: a batch run over a text source with no non-blank line returns an empty
\* list, loads no model, makes no synthesis call and exits with status 0.
C4_EmptyBatchNoLoad ==
    (RanBatch /\ textFile.exists /\ AllBlank(textFile.content)) =>
        /\ loadLog = <<>>
        /\ inferLog = <<>>
        /\ written = {}
        /\ pc \in {"cvb_entry", "ret", "exited"}
        /\ pc \in {"ret", "exited"} =>
              (ret = [kind |-> "list", path |-> NoPath, list |-> <<>>] /\ exc = "")
        /\ pc = "exited" => exit = 0

C4_Witness ==
    /\ RanBatch
    /\ textFile.exists
    /\ textFile.content = <<" ", NL, NL, " ">>
    /\ pc = "exited"
    /\ exit = 0
    /\ ret.kind = "list"

----------------------------------------------------------------------------
(* C5 *)

\* C5: a batch run that completes over the non-blank trimmed lines u_1..u_N makes
\* exactly N synthesis calls, the i-th with text u_i and file clip_{i:03d}.wav
\* under the output directory, and returns those N pairwise distinct paths in
\* that order; blank lines produce no call and no file.  The names are a function
\* of the index alone: that the first 999 are pairwise distinct and of one width
\* is looked at once, where a one-line batch has loaded its model.
C5_BatchCallsAndNames ==
    /\ (pc = "cvb_loop" /\ inferLog = <<>> /\ textFile.content = <<"a">>) =>
          /\ Cardinality({ClipName(i) : i \in 1..MaxClips}) = MaxClips
          /\ \A i \in 1..MaxClips : Len(ClipName(i)) = Len(ExpectedClip[1])
    /\ (RanBatch /\ pc \in {"ret", "exited"} /\ exc = "") =>
        LET u == BatchLines(textFile.content)
            N == Len(u)
            d == AbsPath(startCwd, args.output_dir)
        IN /\ ret.kind = "list"
           /\ Len(inferLog) = N
           /\ Len(ret.list) = N
           /\ \A i \in 1..N :
                 /\ inferLog[i].gen_text = u[i]
                 /\ u[i] # <<>>
                 /\ ~IsSpace(u[i][1]) /\ ~IsSpace(u[i][Len(u[i])])
                 /\ \A k \in DOMAIN u[i] : u[i][k] # NL
                 /\ inferLog[i].file_wave = Abs(d.parts \o <<ExpectedClip[i]>>)
                 /\ ret.list[i] = inferLog[i].file_wave
           /\ \A i, j \in 1..N : i # j => ret.list[i] # ret.list[j]
           /\ written = {ret.list[i] : i \in 1..N}
           /\ textFile.content = <<"a", " ", "a", NL, "a">> =>
                 <<inferLog[1].gen_text, inferLog[2].gen_text>>
                     = << <<"a", " ", "a">>, <<"a">> >>

C5_Witness ==
    /\ RanBatch
    /\ pc = "exited"
    /\ exit = 0
    /\ textFile.content = <<" ", "a", NL, NL, "a">>
    /\ Len(ret.list) = 2
    /\ Len(inferLog) = 2

----------------------------------------------------------------------------
(* C6 *)

\* C6 as stated, for the runs that end with status 0: the number of loads is
\* never above 1 and is 1 at the end of the run, and a load precedes the first
\* synthesis call, every call using that handle.
C6_ExactlyOneLoad ==
    /\ Len(loadLog) <= 1
    /\ (pc = "exited" /\ exit = 0) => Len(loadLog) = 1
    /\ \A k \in DOMAIN inferLog : Len(loadLog) = 1 /\ inferLog[k].handle = 1

\* C6 as amended: the number of loads is never above 1; at the end of a run that
\* exits with status 0 it is 1, except for a batch run over a source with no
\* non-blank line, which loads nothing; the load precedes the first synthesis
\* call and every call uses that handle; a batch that completes over N lines has
\* made 1 load and N calls.
C6_AtMostOneLoad ==
    /\ Len(loadLog) <= 1
    /\ (pc = "exited" /\ exit = 0) =>
          Len(loadLog) = IF RanBatch /\ AllBlank(textFile.content) THEN 0 ELSE 1
    /\ \A k \in DOMAIN inferLog : Len(loadLog) = 1 /\ inferLog[k].handle = 1
    /\ (RanBatch /\ pc = "exited" /\ exit = 0) => Len(inferLog) = Len(ret.list)

C6_Witness ==
    /\ RanBatch
    /\ pc = "exited"
    /\ exit = 0
    /\ Len(inferLog) = 3
    /\ Len(loadLog) = 1

----------------------------------------------------------------------------
(* C7 *)

\* C7: successive clone_voice calls with one model name load that model once.
C7_LoadIfAbsent ==
    \A m \in ModelNames :
        Cardinality({k \in DOMAIN loadLog :
                        loadLog[k].by = "clone_voice" /\ loadLog[k].model = m}) <= 1

----------------------------------------------------------------------------
(* C8 *)

\* C8: in a batch run, a failed synthesis call is the last call made: the run
\* ends with that failure and a non-zero status, returns no list, and the calls
\* before it are the successful calls for the lines before it, in order.
C8_BatchFailureAborts ==
    RanBatch =>
        LET u == BatchLines(textFile.content)
        IN \A j \in DOMAIN inferLog :
              /\ j <= Len(u)
              /\ inferLog[j].gen_text = u[j]
              /\ j < Len(inferLog) => inferLog[j].ok
              /\ ~inferLog[j].ok =>
                    /\ j = Len(inferLog)
                    /\ pc \in {"raised", "exited"}
                    /\ exc = "SynthesisFailure"
                    /\ ret = NoResult
                    /\ written = {inferLog[k].file_wave : k \in 1..(j - 1)}
                    /\ pc = "exited" => exit # 0

C8_Witness ==
    /\ RanBatch
    /\ pc = "exited"
    /\ Len(BatchLines(textFile.content)) = 3
    /\ Len(inferLog) = 2
    /\ inferLog[1].ok
    /\ ~inferLog[2].ok

----------------------------------------------------------------------------
(* C9 *)

\* C9: every request handed to the synthesis service has a non-empty
\* generation text.
C9_GenTextNonEmpty ==
    \A k \in DOMAIN inferLog : inferLog[k].gen_text # <<>>

----------------------------------------------------------------------------
(* C10 *)

\* C10 as stated: the output path of every synthesis call is absolute; a path
\* given absolute is passed unchanged; a relative one is resolved once against
\* the working directory at resolution time, whatever the directory is later.
C10_AbsoluteUnchanged ==
    \A k \in DOMAIN inferLog :
        LET r == ResolvedPart(inferLog[k].file_wave)
        IN /\ r.abs
           /\ GivenOutput.abs => r = GivenOutput
           /\ ~GivenOutput.abs => r = AbsPath(startCwd, GivenOutput)

\* C10 as amended: the output path of every synthesis call is absolute and in
\* normal form; a path given absolute is passed in its normal form, so unchanged
\* when it has no ".", ".." or empty component; a relative one is resolved once
\* against the working directory at resolution time; resolving the result again,
\* in any working directory, gives it back.
C10_AbsoluteNormalised ==
    \A k \in DOMAIN inferLog :
        LET p == inferLog[k].file_wave
            r == ResolvedPart(p)
        IN /\ p.abs
           /\ NoDots(p.parts)
           /\ r = AbsPath(startCwd, GivenOutput)
           /\ (GivenOutput.abs /\ NoDots(GivenOutput.parts)) => r = GivenOutput
           /\ (~GivenOutput.abs /\ NoDots(GivenOutput.parts)) =>
                 r = Abs(startCwd \o GivenOutput.parts)
           /\ \A c \in Cwds : AbsPath(c, p) = p
           /\ RanBatch => p.parts[Len(p.parts)] = ExpectedClip[k]

C10_Witness ==
    /\ RanBatch
    /\ ~args.output_dir.abs
    /\ Len(inferLog) = 2
    /\ inferLog[1].cwd = startCwd
    /\ inferLog[2].cwd # startCwd
    /\ inferLog[2].file_wave.parts = startCwd \o <<"outputs", "clip_002.wav">>

====
